---- MODULE Spec2Model ----
(***************************************************************************)
(* Model of the command launcher h.py: configuration loading (Config),     *)
(* argument parsing (Arguments._parse_title), variable resolution          *)
(* (Core._handle_variables), the picker front end (Core.interactive) and   *)
(* the dispatcher (Core.run, main).                                        *)
(*                                                                         *)
(* A Python str is a sequence of one-character strings.  Indices are       *)
(* Python's: 0-based, s[a:b] is Slice(s, a, b).  An Optional value is the  *)
(* empty tuple (None) or a one-element tuple (Some).                       *)
(***************************************************************************)
EXTENDS Integers, Sequences, FiniteSets, TLC

VARIABLES
  pc,            \* position of main(): start, loaded, input, system, picker, done
  files,         \* the file system: path -> file
  decl,          \* what each file of the file system was written from (observer)
  environ,       \* os.environ, a list of [k, v]
  platform,      \* sys.platform
  argv,          \* the positional command line words (args.title)
  config,        \* Config._config, in insertion order
  err,           \* the exception that ended main(), if any
  title,         \* Core.run: the title being dispatched
  command,       \* Core._handle_variables: the command being substituted
  variables,     \* Core._handle_variables: the variables not yet handled
  assigned,      \* the substitutions performed so far (observer)
  prompts,       \* number of input() prompts issued
  launched,      \* the os.system calls made, in order
  tmpdir,        \* the directory of Core.interactive: none, exists, removed
  tmp_commands,  \* the rows written to commands.tmp
  picked,        \* index of the row the picker gave back, 0 if none (observer)
  caller         \* who called Core.run: main or interactive

vars == <<pc, files, decl, environ, platform, argv, config, err, title, command,
          variables, assigned, prompts, launched, tmpdir, tmp_commands, picked,
          caller>>

-----------------------------------------------------------------------------
(* Python values and str methods *)

None == <<>>
Some(v) == <<v>>

\* the characters of strip('\r\n\t ')
WS == {"\r", "\n", "\t", " "}

\* the characters str.strip() removes by default, as far as the model's
\* alphabet goes
PyWS == WS \cup {"\f"}

\* s[a:b] for 0 <= a and b <= len(s)
Slice(s, a, b) == SubSeq(s, a + 1, b)

Min(S) == CHOOSE i \in S : \A j \in S : i <= j
Max(S) == CHOOSE i \in S : \A j \in S : i >= j

\* s.find(sub, start)
find(s, sub, start) ==
  LET hits == {i \in start..(Len(s) - Len(sub)) : Slice(s, i, i + Len(sub)) = sub}
  IN  IF hits = {} THEN -1 ELSE Min(hits)

\* s.replace(old, new) for a non-empty old: leftmost, non-overlapping
RECURSIVE replace(_, _, _)
replace(s, old, new) ==
  LET p == find(s, old, 0)
  IN  IF p < 0 THEN s
      ELSE Slice(s, 0, p) \o new
           \o replace(Slice(s, p + Len(old), Len(s)), old, new)

RECURSIVE lstrip(_, _)
lstrip(s, chars) ==
  IF s # <<>> /\ Head(s) \in chars THEN lstrip(Tail(s), chars) ELSE s

RECURSIVE rstrip(_, _)
rstrip(s, chars) ==
  IF s # <<>> /\ s[Len(s)] \in chars
  THEN rstrip(Slice(s, 0, Len(s) - 1), chars) ELSE s

\* s.strip(chars)
strip(s, chars) == rstrip(lstrip(s, chars), chars)

\* s.partition(sep)
partition(s, sep) ==
  LET p == find(s, sep, 0)
  IN  IF p < 0 THEN <<s, <<>>, <<>>>>
      ELSE <<Slice(s, 0, p), sep, Slice(s, p + Len(sep), Len(s))>>

\* s.split(sep)
RECURSIVE split(_, _)
split(s, sep) ==
  LET p == find(s, sep, 0)
  IN  IF p < 0 THEN <<s>>
      ELSE <<Slice(s, 0, p)>> \o split(Slice(s, p + Len(sep), Len(s)), sep)

startswith(s, prefix) ==
  Len(s) >= Len(prefix) /\ Slice(s, 0, Len(prefix)) = prefix

endswith(s, suffix) ==
  Len(s) >= Len(suffix) /\ Slice(s, Len(s) - Len(suffix), Len(s)) = suffix

\* sep.join(parts)
RECURSIVE join(_, _)
join(parts, sep) ==
  IF parts = <<>> THEN <<>>
  ELSE IF Len(parts) = 1 THEN parts[1]
  ELSE parts[1] \o sep \o join(Tail(parts), sep)

\* 'c' * n
RECURSIVE repeat(_, _)
repeat(c, n) == IF n <= 0 THEN <<>> ELSE c \o repeat(c, n - 1)

-----------------------------------------------------------------------------
(* Exceptions *)

\* an exception: its kind, the file or title it names, the line it names
NoError == [type |-> "", arg |-> <<>>, line |-> 0]
Raise(type, arg, line) == [type |-> type, arg |-> arg, line |-> line]

-----------------------------------------------------------------------------
(* Util *)

\* os.getenv(k): None if unset
RECURSIVE getenv(_, _)
getenv(env, k) ==
  IF env = <<>> THEN None
  ELSE IF env[Len(env)].k = k THEN Some(env[Len(env)].v)
  ELSE getenv(Slice(env, 0, Len(env) - 1), k)

\* os.path.expanduser: a leading '~' alone or before '/' is the home
\* directory; '~user' of an unknown user is left as it is
expanduser(env, path) ==
  IF ~startswith(path, <<"~">>) THEN path
  ELSE LET f == find(path, <<"/">>, 1)
           i == IF f < 0 THEN Len(path) ELSE f
           home == getenv(env, <<"H", "O", "M", "E">>)
       IN  IF i # 1 \/ home = None THEN path
           ELSE LET r == rstrip(home[1], {"/"}) \o Slice(path, i, Len(path))
                IN  IF r = <<>> THEN <<"/">> ELSE r

RECURSIVE replace_keys(_, _, _)
replace_keys(env, ks, s) ==
  IF ks = <<>> THEN s
  ELSE replace_keys(env, Tail(ks),
                    replace(s, <<"$">> \o Head(ks).k, getenv(env, Head(ks).k)[1]))

\* Util.replace_env
replace_env(env, s) ==
  IF s = <<>> THEN None
  ELSE Some(expanduser(env, replace_keys(env, env, s)))

\* the encodings Util.read_file tries, in order
Encodings(encoding) == <<encoding, "latin1", "gbk">>

RECURSIVE try_encodings(_, _)
try_encodings(file, encs) ==
  IF encs = <<>> THEN None
  ELSE IF file.decoded[Head(encs)] # None THEN file.decoded[Head(encs)]
  ELSE try_encodings(file, Tail(encs))

exists(fs, path) == path \in DOMAIN fs /\ fs[path].exists

\* Util.read_file: [err, content]
read_file(fs, env, filename, encoding) ==
  LET fn == replace_env(env, strip(filename, PyWS))
  IN  IF fn = None
      THEN [err |-> Raise("TypeError", filename, 0), content |-> <<>>]
      ELSE IF ~exists(fs, fn[1])
      THEN [err |-> Raise("ConfigNotFound", fn[1], 0), content |-> <<>>]
      ELSE LET content == try_encodings(fs[fn[1]], Encodings(encoding))
           IN  IF content = None \/ content[1] = <<>>
               THEN [err |-> Raise("ConfigUnreadable", fn[1], 0), content |-> <<>>]
               ELSE [err |-> NoError, content |-> content[1]]

-----------------------------------------------------------------------------
(* ConfigItem, Config *)

SETTINGS == <<"_", "_", "S", "E", "T", "T", "I", "N", "G", "S", "_", "_">>

\* the field names Config._load_config knows
kCommand == <<"c", "o", "m", "m", "a", "n", "d">>
kTool == <<"t", "o", "o", "l">>
kFlags == <<"f", "l", "a", "g", "s">>
kIncludes == <<"i", "n", "c", "l", "u", "d", "e", "s">>

ConfigItem(t) ==
  [title |-> t, command |-> <<>>, tool |-> None, flags |-> None,
   includes |-> None]

\* position of the title in the dict, 0 if absent
index(cfg, t) ==
  LET hits == {i \in 1..Len(cfg) : cfg[i].title = t}
  IN  IF hits = {} THEN 0 ELSE Min(hits)

\* Config.item as a lookup that makes up the Entry it does not find
item_default(cfg, t) ==
  IF index(cfg, t) = 0 THEN Some(ConfigItem(t)) ELSE Some(cfg[index(cfg, t)])

\* Config.item
item(cfg, t) == IF index(cfg, t) = 0 THEN None ELSE Some(cfg[index(cfg, t)])

\* Config.get_settings
get_settings(cfg) == item(cfg, SETTINGS)

\* config[title] = ConfigItem(title) without the test: a declared title
\* starts over
setdefault_reset(cfg, t) ==
  IF index(cfg, t) = 0 THEN Append(cfg, ConfigItem(t))
  ELSE [cfg EXCEPT ![index(cfg, t)] = ConfigItem(t)]

\* if title not in config: config[title] = ConfigItem(title)
setdefault(cfg, t) ==
  IF index(cfg, t) = 0 THEN Append(cfg, ConfigItem(t)) ELSE cfg

\* the chain of field assignments of Config._load_config
setfield(cfg, t, field, value) ==
  LET i == index(cfg, t)
  IN  IF field = <<"c", "o", "m", "m", "a", "n", "d">>
      THEN [cfg EXCEPT ![i].command = value]
      ELSE IF field = kTool
      THEN [cfg EXCEPT ![i].tool = Some(value)]
      ELSE IF field = kFlags
      THEN [cfg EXCEPT ![i].flags = Some(value)]
      ELSE IF field = kIncludes
      THEN [cfg EXCEPT ![i].includes = Some(split(value, <<",">>))]
      ELSE cfg

\* the for loop of Config._load_config, from the line after line_num
RECURSIVE load_lines(_, _, _, _, _)
load_lines(cfg, filename, lines, line_num, t) ==
  IF line_num >= Len(lines) THEN [config |-> cfg, err |-> NoError]
  ELSE
    LET n == line_num + 1
        line == strip(lines[n], WS)
    IN  IF line = <<>> \/ Slice(line, 0, 1) \in {<<"#">>, <<";">>}
        THEN load_lines(cfg, filename, lines, n, t)
        ELSE IF startswith(line, <<"[">>)
        THEN IF ~endswith(line, <<"]">>)
             THEN [config |-> cfg,
                   err |-> Raise("ConfigSyntaxError", filename, n)]
             ELSE LET nt == strip(Slice(line, 1, Len(line) - 1), WS)
                  IN  load_lines(setdefault(cfg, nt), filename, lines, n, nt)
        ELSE LET pos == find(line, <<"=">>, 0)
             IN  IF pos >= 0
                 THEN LET field == strip(Slice(line, 0, pos), WS)
                          value == strip(Slice(line, pos + 1, Len(line)), WS)
                      IN  load_lines(setfield(setdefault(cfg, t), t, field, value),
                                     filename, lines, n, t)
                 ELSE load_lines(cfg, filename, lines, n, t)

\* Config._load_config: [config, err]
_load_config(cfg, fs, env, filename) ==
  LET r == read_file(fs, env, filename, "utf-8")
  IN  IF r.err # NoError THEN [config |-> cfg, err |-> r.err]
      ELSE load_lines(cfg, filename, split(r.content, <<"\n">>), 0, SETTINGS)

\* for filename in includes: self._load_config(self._config, filename)
RECURSIVE load_includes(_, _, _, _)
load_includes(cfg, fs, env, includes) ==
  IF includes = <<>> THEN [config |-> cfg, err |-> NoError]
  ELSE LET r == _load_config(cfg, fs, env, Head(includes))
       IN  IF r.err # NoError THEN r
           ELSE load_includes(r.config, fs, env, Tail(includes))

\* Config.__init__: [config, err]
Config_init(fs, env, root_config_file) ==
  LET r == _load_config(<<>>, fs, env, root_config_file)
  IN  IF r.err # NoError THEN r
      ELSE LET s == get_settings(r.config)
           IN  IF s = None
               THEN [config |-> r.config,
                     err |-> Raise("AttributeError", root_config_file, 0)]
               ELSE IF s[1].includes = None
               THEN [config |-> r.config,
                     err |-> Raise("TypeError", root_config_file, 0)]
               ELSE load_includes(r.config, fs, env, s[1].includes[1])

-----------------------------------------------------------------------------
(* dict: a sequence of [k, v] in insertion order *)

dict_index(d, k) ==
  LET hits == {i \in 1..Len(d) : d[i].k = k}
  IN  IF hits = {} THEN 0 ELSE Min(hits)

\* d[k] = v
dict_set(d, k, v) ==
  IF dict_index(d, k) = 0 THEN Append(d, [k |-> k, v |-> v])
  ELSE [d EXCEPT ![dict_index(d, k)].v = v]

\* d.pop(k) for a key of d
dict_pop(d, k) ==
  LET i == dict_index(d, k)
  IN  Slice(d, 0, i - 1) \o Slice(d, i, Len(d))

\* list(d.keys()), list(d.values())
dict_keys(d) == [i \in 1..Len(d) |-> d[i].k]
dict_values(d) == [i \in 1..Len(d) |-> d[i].v]

-----------------------------------------------------------------------------
(* Arguments *)

\* the keys of command_args: a str (key=value) or an int (bare argument)
StrKey(name) == [kind |-> "str", name |-> name, pos |-> 0]
IntKey(i) == [kind |-> "int", name |-> <<>>, pos |-> i]

\* for i, arg in enumerate(args), from index i
RECURSIVE parse_args(_, _, _)
parse_args(rst, args, i) ==
  IF i >= Len(args) THEN rst
  ELSE LET p == partition(args[i + 1], <<"=">>)
       IN  parse_args(IF p[2] # <<>> THEN dict_set(rst, StrKey(p[1]), p[3])
                      ELSE dict_set(rst, IntKey(i), p[1]),
                      args, i + 1)

\* Arguments._parse_title
_parse_title(t) ==
  IF t = <<>> THEN [command_title |-> None, command_args |-> None]
  ELSE [command_title |-> Some(t[1]),
        command_args |-> Some(parse_args(<<>>, Tail(t), 0))]

-----------------------------------------------------------------------------
(* Core._handle_variables *)

mark_open == <<"$", "(", "?">>
mark_close == <<")">>

\* the (p1, p2) of every round of the scanning loop, from position i
RECURSIVE markers(_, _)
markers(cmd, i) ==
  LET p1 == find(cmd, mark_open, i)
      p2 == find(cmd, mark_close, p1)
  IN  IF p1 < 0 \/ p2 < 0 THEN <<>>
      ELSE <<[p1 |-> p1, p2 |-> p2]>> \o markers(cmd, p2)

\* the variable of the marker at (p1, p2)
variable(cmd, m) ==
  LET full_name == Slice(cmd, m.p1 + Len(mark_open), m.p2)
      pt == partition(strip(full_name, PyWS), <<":">>)
  IN  [name |-> pt[1], default |-> pt[3], full_name |-> full_name,
       mark |-> mark_open \o full_name \o mark_close]

\* variables[name] = {...} for each marker in turn
RECURSIVE collect(_, _, _)
collect(vs, cmd, ms) ==
  IF ms = <<>> THEN vs
  ELSE collect(dict_set(vs, Head(ms).name, Head(ms)), cmd, Tail(ms))

scan(cmd) ==
  LET ms == markers(cmd, 0)
  IN  collect(<<>>, cmd, [i \in 1..Len(ms) |-> variable(cmd, ms[i])])

\* variables.get that finds nothing: the named pass binds no variable
lookup_none(vs, key) == None

\* variables.get(name) for a key of args: only a str equals a variable's name
lookup(vs, key) ==
  IF key.kind = "str" /\ dict_index(vs, key.name) # 0
  THEN Some(vs[dict_index(vs, key.name)].v) ELSE None

\* "handle args": for name in list(args.keys())
RECURSIVE handle_args(_, _)
handle_args(st, keys) ==
  IF keys = <<>> THEN st
  ELSE LET name == Head(keys)
           v == lookup(st.variables, name)
       IN  IF v = None THEN handle_args(st, Tail(keys))
           ELSE handle_args(
                  [command |-> replace(st.command, v[1].mark,
                                       st.args[dict_index(st.args, name)].v),
                   args |-> dict_pop(st.args, name),
                   variables |-> dict_pop(st.variables, v[1].name),
                   assigned |-> Append(st.assigned,
                                  [name |-> v[1].name, pass |-> "named",
                                   value |-> st.args[dict_index(st.args, name)].v])],
                  Tail(keys))

\* the values the "anonymous args" loop draws from
anonymous_values(args) == dict_values(args)

\* "handle anonymous args": for v in list(variables.values())
RECURSIVE handle_anonymous(_, _, _)
handle_anonymous(st, vlist, values) ==
  IF vlist = <<>> \/ values = <<>> THEN st
  ELSE LET v == Head(vlist)
       IN  handle_anonymous(
             [command |-> replace(st.command, v.mark, Head(values)),
              args |-> st.args,
              variables |-> dict_pop(st.variables, v.name),
              assigned |-> Append(st.assigned,
                             [name |-> v.name, pass |-> "positional",
                              value |-> Head(values)])],
             Tail(vlist), Tail(values))

\* Core._handle_variables up to its first input(): [command, args,
\* variables, assigned]
_handle_variables(cmd, args) ==
  LET s0 == [command |-> cmd, args |-> args, variables |-> scan(cmd),
             assigned |-> <<>>]
      s1 == handle_args(s0, dict_keys(args))
  IN  handle_anonymous(s1, dict_values(s1.variables),
                       anonymous_values(s1.args))

\* one round of "handle unspecified variables" with the line input() read
handle_unspecified(cmd, v, data) ==
  replace(cmd, v.mark, IF data = <<>> THEN v.default ELSE data)

-----------------------------------------------------------------------------
(* Core.run, Core.interactive, main *)

\* the default picker and its default flags
fzf == <<"f", "z", "f">>
default_flags ==
  <<"-", "-", "n", "t", "h", "=", "1", " ", "-", "-", "r", "e", "v", "e", "r",
    "s", "e", " ", "+", "s", " ", "-", "-", "i", "n", "l", "i", "n", "e", "-",
    "i", "n", "f", "o", " ", "-", "-", "h", "e", "i", "g", "h", "t", " ", "3",
    "5", "%", " ", "-", "-", "n", "o", "-", "m", "o", "u", "s", "e">>

\* the -f option
config_file == <<"r">>

\* an os.system call: what runs, and the files its input and output are
\* redirected to
Shell(kind, cmd, stdin, stdout) ==
  [kind |-> kind, cmd |-> cmd, stdin |-> stdin, stdout |-> stdout]

\* x or default, for an Optional[str] x
or_default(x, default) == IF x = None \/ x[1] = <<>> THEN default ELSE x[1]

\* "calc title ... width": the longest title, the settings title included
width(cfg) == Max({0} \cup {Len(cfg[i].title) : i \in 1..Len(cfg)})

\* "write command list"
RECURSIVE rows(_, _)
rows(cfg, w) ==
  IF cfg = <<>> THEN <<>>
  ELSE IF Head(cfg).title = SETTINGS THEN rows(Tail(cfg), w)
  ELSE <<Head(cfg).title \o repeat(<<" ">>, w - Len(Head(cfg).title) + 2)
         \o <<":">> \o Head(cfg).command>>
       \o rows(Tail(cfg), w)

\* the title Core.interactive reads back from the picker's output, None if
\* the output has no colon
selected_title(output) ==
  LET line == strip(output, WS)
      ops == find(line, <<":">>, 0)
  IN  IF ops < 0 THEN None ELSE Some(strip(Slice(line, 0, ops), PyWS))

\* Core.run that hands the command to the shell twice
Execute_twice(cmd) ==
  /\ launched' = Append(Append(launched, Shell("command", cmd, <<>>, <<>>)),
                        Shell("command", cmd, <<>>, <<>>))
  /\ pc' = "system"

\* os.system(command) at the end of Core.run
Execute(cmd) ==
  /\ launched' = Append(launched, Shell("command", cmd, <<>>, <<>>))
  /\ pc' = "system"

\* Core.run(title, args) up to its first input() or its os.system
Core_run(t, args) ==
  LET it == item(config, t)
  IN  /\ title' = t
      /\ IF it = None
         THEN /\ err' = Raise("TitleNotFound", t, 0)
              /\ pc' = "done"
              /\ UNCHANGED <<command, variables, assigned, prompts, launched>>
         ELSE LET st == _handle_variables(it[1].command, args)
              IN  /\ err' = err
                  /\ command' = st.command
                  /\ variables' = dict_values(st.variables)
                  /\ assigned' = st.assigned
                  /\ IF st.variables = <<>>
                     THEN Execute(st.command) /\ prompts' = prompts
                     ELSE /\ pc' = "input"
                          /\ prompts' = prompts + 1
                          /\ launched' = launched

\* main: Core(Config(arguments.config_file))
Main_load ==
  /\ pc = "start"
  /\ LET f == replace_env(environ, config_file)
         r == Config_init(files, environ, f[1])
     IN  IF r.err = NoError
         THEN pc' = "loaded" /\ config' = r.config /\ err' = err
         ELSE pc' = "done" /\ config' = <<>> /\ err' = r.err
  /\ UNCHANGED <<files, decl, environ, platform, argv, title, command,
                 variables, assigned, prompts, launched, tmpdir, tmp_commands,
                 picked, caller>>

\* if arguments.command_title:
has_title(a) ==
  _parse_title(a).command_title # None
  /\ _parse_title(a).command_title[1] # <<>>

\* main: core.run(arguments.command_title, arguments.command_args)
Main_run ==
  /\ pc = "loaded"
  /\ has_title(argv)
  /\ caller' = "main"
  /\ Core_run(_parse_title(argv).command_title[1],
              _parse_title(argv).command_args[1])
  /\ UNCHANGED <<files, decl, environ, platform, argv, config, tmpdir,
                 tmp_commands, picked>>

\* main: core.interactive(), up to the os.system that runs the picker
Main_interactive ==
  /\ pc = "loaded"
  /\ ~has_title(argv)
  /\ LET s == get_settings(config)
         tool == or_default(s[1].tool, fzf)
         flags == or_default(s[1].flags, default_flags)
     IN  /\ tmpdir' = "exists"
         /\ tmp_commands' = rows(config, width(config))
         /\ IF Slice(platform, 0, 3) # <<"w", "i", "n">>
            THEN /\ launched' = Append(launched,
                      Shell("picker", tool \o <<" ">> \o flags,
                            <<"commands.tmp">>, <<"output.tmp">>))
                 /\ pc' = "picker"
                 /\ err' = err
            ELSE /\ launched' = launched
                 /\ pc' = "done"
                 /\ err' = Raise("AssertionError", platform, 0)
  /\ caller' = "interactive"
  /\ UNCHANGED <<files, decl, environ, platform, argv, config, title, command,
                 variables, assigned, prompts, picked>>

\* what the picker can exit with, and what it can leave in output.tmp: one
\* of the rows it was given, or nothing
ExitCodes == {0, 1}
picker_output(k) == IF k = 0 THEN <<>> ELSE tmp_commands[k] \o <<"\n">>

\* Core.interactive after the picker: "read command from tmp_output, and run"
picker_return ==
  /\ pc = "picker"
  /\ \E code \in ExitCodes, k \in 0..Len(tmp_commands) :
       LET t == selected_title(picker_output(k))
       IN  IF code # 0
           THEN /\ pc' = "done"
                /\ picked' = 0
                /\ UNCHANGED <<err, title, command, variables, assigned,
                               prompts, launched>>
           ELSE /\ picked' = k
                /\ IF t = None
                   THEN /\ pc' = "done"
                        /\ UNCHANGED <<err, title, command, variables,
                                       assigned, prompts, launched>>
                   ELSE Core_run(t[1], <<>>)
  /\ UNCHANGED <<files, decl, environ, platform, argv, config, tmpdir,
                 tmp_commands, caller>>

\* what the user can type at a prompt
PromptInputs == {<<>>, <<"p">>}

\* "handle unspecified variables": one input() returns
Input ==
  /\ pc = "input"
  /\ \E data \in PromptInputs :
       LET v == Head(variables)
           c == handle_unspecified(command, v, data)
       IN  /\ command' = c
           /\ variables' = Tail(variables)
           /\ assigned' = Append(assigned,
                            [name |-> v.name, pass |-> "interactive",
                             value |-> IF data = <<>> THEN v.default ELSE data])
           /\ IF Tail(variables) = <<>>
              THEN Execute(c) /\ prompts' = prompts
              ELSE /\ pc' = "input"
                   /\ prompts' = prompts + 1
                   /\ launched' = launched
  /\ UNCHANGED <<files, decl, environ, platform, argv, config, err, title,
                 tmpdir, tmp_commands, picked, caller>>

\* input() raises: Ctrl-C or end of input; main's except clauses end the run
Input_raise ==
  /\ pc = "input"
  /\ \E e \in {"KeyboardInterrupt", "EOFError"} : err' = Raise(e, <<>>, 0)
  /\ pc' = "done"
  /\ UNCHANGED <<files, decl, environ, platform, argv, config, title, command,
                 variables, assigned, prompts, launched, tmpdir, tmp_commands,
                 picked, caller>>

\* os.system(command) returns; Core.interactive then removes its directory
system_return ==
  /\ pc = "system"
  /\ pc' = "done"
  /\ tmpdir' = IF caller = "interactive" /\ tmpdir = "exists"
               THEN "removed" ELSE tmpdir
  /\ UNCHANGED <<files, decl, environ, platform, argv, config, err, title,
                 command, variables, assigned, prompts, launched,
                 tmp_commands, picked, caller>>

-----------------------------------------------------------------------------
(* The inputs: file systems, environments, command lines *)

EncodingNames == {"utf-8", "latin1", "gbk"}

\* a file every encoding decodes to the text
TextFile(text) ==
  [exists |-> TRUE, decoded |-> [e \in EncodingNames |-> Some(text)]]

\* a file only latin1 decodes
Latin1File(text) ==
  [exists |-> TRUE,
   decoded |-> [e \in EncodingNames |-> IF e = "latin1" THEN Some(text) ELSE None]]

\* a path that exists and that open() fails on (a directory, no permission)
Unreadable == [exists |-> TRUE, decoded |-> [e \in EncodingNames |-> None]]

Missing == [exists |-> FALSE, decoded |-> [e \in EncodingNames |-> None]]

R == <<"r">>
F1 == <<"f", "1">>
F2 == <<"f", "2">>
Paths == {R, F1, F2}

Env ==
  <<[k |-> <<"D">>, v |-> <<"f">>],
    [k |-> <<"H", "O", "M", "E">>, v |-> <<"/", "h">>]>>

Linux == <<"l", "i", "n", "u", "x">>
Win32 == <<"w", "i", "n", "3", "2">>

\* A line of a configuration file as its author means it: the text, and what
\* the text declares.  header: opens the section title; assign: sets field
\* to value (for includes, paths are the files the list names); other: a
\* field the program does not know; skip: blank, comment or no '='; bad: an
\* unterminated header.
Header(text, t) ==
  [text |-> text, kind |-> "header", title |-> t, field |-> "", value |-> <<>>,
   paths |-> <<>>]
Assign(text, f, v) ==
  [text |-> text, kind |-> "assign", title |-> <<>>, field |-> f, value |-> v,
   paths |-> <<>>]
Includes(text, list, ps) ==
  [text |-> text, kind |-> "assign", title |-> <<>>, field |-> "includes",
   value |-> Some(list), paths |-> ps]
Other(text) ==
  [text |-> text, kind |-> "other", title |-> <<>>, field |-> "", value |-> <<>>,
   paths |-> <<>>]
Skip(text) ==
  [text |-> text, kind |-> "skip", title |-> <<>>, field |-> "", value |-> <<>>,
   paths |-> <<>>]
Bad(text) ==
  [text |-> text, kind |-> "bad", title |-> <<>>, field |-> "", value |-> <<>>,
   paths |-> <<>>]

\* the text of a file written from the lines
Text(lines) == join([i \in 1..Len(lines) |-> lines[i].text], <<"\n">>)

Written(lines) == [file |-> TextFile(Text(lines)), lines |-> lines]

A == <<"a">>
AB == <<"a", ":", "b">>

L_includes_f1 == Includes(<<"i", "n", "c", "l", "u", "d", "e", "s", " ", "=", " ", "f", "1">>, <<F1>>, <<F1>>)
L_includes_f1_f2 == Includes(<<"i", "n", "c", "l", "u", "d", "e", "s", "=", "f", "1", ",", " ", "$", "D", "2">>, <<F1, <<" ", "$", "D", "2">>>>, <<F1, F2>>)
L_includes_f2 == Includes(<<"i", "n", "c", "l", "u", "d", "e", "s", " ", "=", " ", "f", "2">>, <<F2>>, <<F2>>)
L_a == Header(<<"[", "a", "]">>, A)
L_a_spaced == Header(<<"[", " ", "a", " ", "]">>, A)
L_ab == Header(<<" ", "[", " ", "a", ":", "b", " ", "]", "\r">>, AB)
L_c == Header(<<"[", "c", "]">>, <<"c">>)
L_command(v) == Assign(kCommand \o <<" ", "=", " ">> \o v, "command", v)
L_command_empty == Assign(kCommand \o <<"=">>, "command", <<>>)
L_flags(v) == Assign(kFlags \o <<"=">> \o v \o <<" ">>, "flags", Some(v))
L_tool(v) == Assign(<<"\t">> \o kTool \o <<" ", "=">> \o v, "tool", Some(v))
L_comment == Skip(<<"#", " ">> \o kTool \o <<" ", "=", " ", "z">>)
L_other == Other(<<"k", " ", "=", " ", "v">>)
L_bad == Bad(<<"[", "b">>)

-----------------------------------------------------------------------------
(* Specifications *)

\* nothing has been dispatched
Idle ==
  /\ err = NoError
  /\ title = <<>>
  /\ command = <<>>
  /\ variables = <<>>
  /\ assigned = <<>>
  /\ prompts = 0
  /\ launched = <<>>
  /\ tmpdir = "none"
  /\ tmp_commands = <<>>
  /\ picked = 0
  /\ caller = "none"

\* main() has not started
Fresh == config = <<>> /\ Idle

\* the file system with the three files
FileSystem(r, f1, f2) ==
  /\ files = [p \in Paths |-> IF p = R THEN r.file ELSE IF p = F1 THEN f1.file
                                                     ELSE f2.file]
  /\ decl = [p \in Paths |-> IF p = R THEN r.lines ELSE IF p = F1 THEN f1.lines
                                                    ELSE f2.lines]

NoFile == [file |-> Missing, lines |-> <<>>]

(* Loading: every root file of at most MaxLines lines, with include files *)

MaxLines == 3

RootLines ==
  {L_includes_f1, L_includes_f1_f2, L_a, L_ab, L_command(<<"x">>),
   L_flags(<<"y">>), L_comment, L_other, L_bad}

F1Choices ==
  {NoFile,
   [file |-> Unreadable, lines |-> <<>>],
   Written(<<>>),
   [file |-> Latin1File(Text(<<L_a, L_flags(<<"g">>)>>)),
    lines |-> <<L_a, L_flags(<<"g">>)>>],
   Written(<<L_command(<<"w">>), L_a_spaced, L_command(<<"u">>),
             L_tool(<<"t">>)>>),
   Written(<<L_includes_f2, L_ab, L_command_empty>>)}

F2Choices ==
  {NoFile,
   Written(<<L_a, L_command(<<"v">>), L_c>>),
   Written(<<L_flags(<<"h">>), L_bad>>)}

InitLoad ==
  /\ pc = "start"
  /\ \E n \in 0..MaxLines : \E ls \in [1..n -> RootLines] :
       \E f1 \in F1Choices, f2 \in F2Choices :
         FileSystem(Written(ls), f1, f2)
  /\ environ = Env
  /\ platform = Linux
  /\ argv = <<>>
  /\ Fresh

SpecLoad == InitLoad /\ [][Main_load]_vars

(* Resolving: every template of at most MaxPieces pieces, declared under
   the title t of the include file, and every command line of at most
   MaxArgs arguments after the title *)

MaxPieces == 3
MaxArgs == 2

T == <<"t">>

Pieces ==
  {<<"$", "(", "?", "a", ")">>, <<"$", "(", "?", " ", "b", ":", "d", ")">>,
   <<"$", "(">>, <<"?", "a", ")">>}

Words ==
  {<<"v">>, <<"a", "=", "w">>, <<"a", "=">>,
   <<"a", "=", "$", "(", "?", " ", "b", ":", "d", ")">>,
   <<"c", "=", "u">>}

InitResolve ==
  /\ pc = "loaded"
  /\ \E n \in 0..MaxPieces : \E ps \in [1..n -> Pieces] :
       FileSystem(Written(<<L_includes_f1>>),
                  Written(<<Header(<<"[", "t", "]">>, T),
                            L_command(join(ps, <<>>))>>),
                  NoFile)
  /\ environ = Env
  /\ platform = Linux
  /\ \E n \in 0..MaxArgs : \E ws \in [1..n -> Words] : argv = <<T>> \o ws
  /\ config = Config_init(files, environ, R).config
  /\ Idle

NextResolve == Main_run \/ Input \/ Input_raise \/ system_return

SpecResolve == InitResolve /\ [][NextResolve]_vars

(* The launcher as a whole, on a few configurations and command lines *)

MainRoots ==
  {Written(<<L_includes_f1>>),
   Written(<<L_tool(<<"m">>), L_flags(<<"n">>), L_includes_f1>>),
   Written(<<L_a, L_command(<<"x">>)>>)}

MainIncludes ==
  {NoFile,
   Written(<<L_comment>>),
   Written(<<L_a, L_command(<<"e", " ", "$", "(", "?", "x", ":", "d", ")">>), L_ab, L_command(<<"l">>)>>),
   Written(<<Header(<<"[", "b", "]">>, <<"b">>), L_command(<<"$", "(", "?", "x", ")", "$", "(", "?", "y", ")">>),
             L_ab, L_command(<<"l">>)>>)}

CommandLines ==
  {<<>>, <<<<>>>>, <<A>>, <<A, <<"v">>>>, <<A, <<"x", "=", "v">>>>,
   <<<<"b">>, <<"v">>>>, <<<<"q">>>>, <<AB>>}

Init ==
  /\ pc = "start"
  /\ \E r \in MainRoots, f1 \in MainIncludes : FileSystem(r, f1, NoFile)
  /\ environ = Env
  /\ platform \in {Linux, Win32}
  /\ argv \in CommandLines
  /\ Fresh

Next ==
  \/ Main_load
  \/ Main_run
  \/ Main_interactive
  \/ picker_return
  \/ Input
  \/ Input_raise
  \/ system_return

Spec == Init /\ [][Next]_vars

-----------------------------------------------------------------------------
(* Properties of loading *)

Fields == {"command", "tool", "flags", "includes"}

\* the section the i-th line of a file belongs to
CurTitle(ds, i) ==
  LET hs == {j \in 1..i : ds[j].kind = "header"}
  IN  IF hs = {} THEN SETTINGS ELSE ds[Max(hs)].title

\* the lines of the root file that set the includes of the settings entry
RootIncludeLines ==
  {i \in 1..Len(decl[R]) :
     /\ decl[R][i].kind = "assign"
     /\ decl[R][i].field = "includes"
     /\ CurTitle(decl[R], i) = SETTINGS}

\* load order: the root file, then the files its includes list names
LoadOrder ==
  <<R>> \o (IF RootIncludeLines = {} THEN <<>>
            ELSE decl[R][Max(RootIncludeLines)].paths)

\* what the lines of the files declare, in load order
RECURSIVE Declarations(_)
Declarations(order) ==
  IF order = <<>> THEN <<>>
  ELSE LET ds == decl[Head(order)]
       IN  [i \in 1..Len(ds) |->
              [title |-> CurTitle(ds, i), kind |-> ds[i].kind,
               field |-> ds[i].field, value |-> ds[i].value]]
           \o Declarations(Tail(order))

\* the value of the last assignment to the field under the title, the
\* initial value of the field if there is none
LastAssigned(t, f) ==
  LET ds == Declarations(LoadOrder)
      hits == {i \in 1..Len(ds) :
                 ds[i].kind = "assign" /\ ds[i].title = t /\ ds[i].field = f}
  IN  IF hits = {} THEN ConfigItem(t)[f] ELSE ds[Max(hits)].value

DeclaredTitles ==
  LET ds == Declarations(LoadOrder)
  IN  {ds[i].title : i \in {j \in 1..Len(ds) :
                              ds[j].kind \in {"header", "assign", "other"}}}

\* C1: after a load that succeeds, each declared title has exactly one
\* Entry, and each field of it is the value of the last assignment to that
\* field under that title in load order (root file, then the includes as
\* listed), or the field's empty initial value if it was never assigned.
C1_LastAssignmentPerField ==
  pc = "loaded" =>
    /\ \A i, j \in 1..Len(config) :
         config[i].title = config[j].title => i = j
    /\ {config[i].title : i \in 1..Len(config)} = DeclaredTitles
    /\ \A i \in 1..Len(config) : \A f \in Fields :
         config[i][f] = LastAssigned(config[i].title, f)

\* C1 witness: the title a is declared in the root file (command = x) and
\* in both include files; its command is the one of the last file and its
\* flags are the ones of the first include file.
C1_Witness ==
  /\ pc = "loaded"
  /\ \E k \in 1..Len(decl[R]) :
       /\ decl[R][k].kind = "assign"
       /\ decl[R][k].field = "command"
       /\ CurTitle(decl[R], k) = A
  /\ \E i \in 1..Len(config) :
       /\ config[i].title = A
       /\ config[i].command = <<"v">>
       /\ config[i].flags = Some(<<"g">>)
       /\ config[i].tool = None

\* the root file exists, some encoding decodes it (to a text that is not
\* empty: the empty file is the case of C7) and no header of it is
\* unterminated
RootWellFormed ==
  /\ files[R].exists
  /\ \E e \in EncodingNames : files[R].decoded[e] \notin {None, Some(<<>>)}
  /\ \A i \in 1..Len(decl[R]) : decl[R][i].kind # "bad"

\* C2: a well-formed root file that declares no includes for the settings
\* entry loads, and the ConfigSet is the one built from the root file alone.
C2_IncludesOptional ==
  (pc # "start" /\ RootWellFormed /\ RootIncludeLines = {}) =>
    /\ err = NoError
    /\ config = load_lines(<<>>, R, split(Text(decl[R]), <<"\n">>), 0,
                           SETTINGS).config

\* C7: only a file that exists and that no encoding decodes is reported
\* as unreadable.
C7_UnreadableOnlyIfUndecodable ==
  err.type = "ConfigUnreadable" =>
    /\ exists(files, err.arg)
    /\ \A e \in EncodingNames : files[err.arg].decoded[e] = None

-----------------------------------------------------------------------------
(* Properties of resolving *)

\* the template and the bindings of the dispatch under way
Template == item(config, title)[1].command
Bindings ==
  IF caller = "main" THEN _parse_title(argv).command_args[1] ELSE <<>>

\* Core.run is past the named and the positional pass
Passed ==
  \/ pc \in {"input", "system"}
  \/ /\ pc = "done"
     /\ \/ err.type \in {"KeyboardInterrupt", "EOFError"}
        \/ \E i \in 1..Len(launched) : launched[i].kind = "command"

\* _handle_variables has returned and its result was handed to the shell
Returned == \E i \in 1..Len(launched) : launched[i].kind = "command"

\* the names of the markers of the template, in scan order
MarkerNames(cmd) ==
  LET ms == markers(cmd, 0)
  IN  [i \in 1..Len(ms) |-> variable(cmd, ms[i]).name]

\* the names in the order they were first discovered
FirstDiscovered(cmd) ==
  LET ns == MarkerNames(cmd)
      firsts == {i \in 1..Len(ns) : \A j \in 1..(i - 1) : ns[j] # ns[i]}
      nth(k) == CHOOSE i \in firsts : Cardinality({j \in firsts : j < i}) = k - 1
  IN  [k \in 1..Cardinality(firsts) |-> ns[nth(k)]]

IsNamed(b) == b.k.kind = "str"
IsPositionalKey(b) == b.k.kind = "int"
IsPositional(a) == a.pass = "positional"
IsInteractive(a) == a.pass = "interactive"

\* the values of the bindings keyed by position, in ascending position
PositionalValues(bs) ==
  LET ps == SelectSeq(bs, IsPositionalKey)
      nth(k) == CHOOSE i \in 1..Len(ps) :
                  Cardinality({j \in 1..Len(ps) : ps[j].k.pos < ps[i].k.pos}) = k - 1
  IN  [k \in 1..Len(ps) |-> ps[nth(k)].v]

\* the variables no named binding matches, in discovery order
PendingAfterNamed(cmd, bs) ==
  LET named == {bs[i].k.name : i \in {j \in 1..Len(bs) : IsNamed(bs[j])}}
      Unbound(n) == n \notin named
  IN  SelectSeq(FirstDiscovered(cmd), Unbound)

\* C3: the positional pass assigns the values of the bindings keyed by
\* position, in ascending position, to the variables pending after the named
\* pass, in discovery order; the variables left over go to the interactive
\* pass; no binding keyed by an unmatched name is assigned.
C3_PositionalPass ==
  Passed =>
    LET pending == PendingAfterNamed(Template, Bindings)
        values == PositionalValues(Bindings)
        n == IF Len(pending) < Len(values) THEN Len(pending) ELSE Len(values)
        prompted == SelectSeq(assigned, IsInteractive)
    IN  /\ SelectSeq(assigned, IsPositional)
             = [i \in 1..n |-> [name |-> pending[i], pass |-> "positional",
                                value |-> values[i]]]
        /\ [i \in 1..Len(prompted) |-> prompted[i].name]
             \o [i \in 1..Len(variables) |-> variables[i].name]
             = SubSeq(pending, n + 1, Len(pending))

\* the template has exactly one marker, and a named binding for its name
OneMarkerBound ==
  /\ Len(markers(Template, 0)) = 1
  /\ \E i \in 1..Len(Bindings) :
       /\ IsNamed(Bindings[i])
       /\ Bindings[i].k.name = MarkerNames(Template)[1]

TheMarker == markers(Template, 0)[1]
TheMark == variable(Template, TheMarker).mark
BoundValue ==
  Bindings[CHOOSE i \in 1..Len(Bindings) :
             /\ IsNamed(Bindings[i])
             /\ Bindings[i].k.name = MarkerNames(Template)[1]].v

\* the template with the marker replaced by the value
MarkerReplaced(v) ==
  Slice(Template, 0, TheMarker.p1) \o v
  \o Slice(Template, TheMarker.p2 + 1, Len(Template))

Chars(s) == {s[i] : i \in 1..Len(s)}

\* C4 as stated: with one marker and a named binding for it, the result is
\* the template with the marker replaced by the bound value, it contains
\* the value and no marker text, and nothing is prompted.
C4_NoMarkerTextRemains ==
  (Passed /\ OneMarkerBound) =>
    /\ command = MarkerReplaced(BoundValue)
    /\ find(command, BoundValue, 0) >= 0
    /\ find(command, TheMark, 0) < 0
    /\ prompts = 0

\* C4 amended: the result is the template with the marker replaced by the
\* bound value, it contains the value, and nothing is prompted; it contains
\* no marker text when the value is not empty and shares no character with
\* the marker text.
C4_NamedBinding ==
  (Passed /\ OneMarkerBound) =>
    /\ command = MarkerReplaced(BoundValue)
    /\ find(command, BoundValue, 0) >= 0
    /\ prompts = 0
    /\ pc # "input"
    /\ (BoundValue # <<>> /\ Chars(BoundValue) \cap Chars(TheMark) = {})
         => find(command, TheMark, 0) < 0

\* C4 witness: the marker $(?a) follows other text and a=w is bound: the
\* command handed to the shell is that text followed by w.
C4_Witness ==
  /\ Returned
  /\ OneMarkerBound
  /\ BoundValue = <<"w">>
  /\ TheMarker.p1 > 0
  /\ command # Template
  /\ launched[Len(launched)].cmd = MarkerReplaced(<<"w">>)

\* the value the variable of the name was given
ValueOf(n) ==
  assigned[CHOOSE i \in 1..Len(assigned) : assigned[i].name = n].value

\* the template with each marker replaced by its own variable's value
RECURSIVE Simultaneous(_, _, _)
Simultaneous(cmd, ms, from) ==
  IF ms = <<>> THEN Slice(cmd, from, Len(cmd))
  ELSE Slice(cmd, from, Head(ms).p1)
       \o ValueOf(variable(cmd, Head(ms)).name)
       \o Simultaneous(cmd, Tail(ms), Head(ms).p2 + 1)

DistinctNames(cmd) ==
  \A i, j \in 1..Len(MarkerNames(cmd)) :
    MarkerNames(cmd)[i] = MarkerNames(cmd)[j] => i = j

\* C10: with distinct variable names, the result is the simultaneous
\* replacement of each marker of the template by its variable's value.
C10_ValuesVerbatim ==
  (Returned /\ DistinctNames(Template)) =>
    command = Simultaneous(Template, markers(Template, 0), 0)

-----------------------------------------------------------------------------
(* Properties of the dispatcher *)

Absent(t) == \A i \in 1..Len(config) : config[i].title # t

\* this step dispatches the title: from the command line, or from the row
\* the picker gave back
Dispatches(t) ==
  \/ /\ pc = "loaded"
     /\ has_title(argv)
     /\ t = _parse_title(argv).command_title[1]
  \/ /\ pc = "picker"
     /\ picked' # 0
     /\ selected_title(picker_output(picked')) = Some(t)

\* C5: dispatching a title the ConfigSet does not have fails with
\* TitleNotFound: nothing is prompted, nothing is handed to the shell and
\* the ConfigSet is as it was.
C5_UnknownTitle ==
  [][\A t \in {title'} :
       (Dispatches(t) /\ Absent(t)) =>
         /\ err'.type = "TitleNotFound"
         /\ pc' = "done"
         /\ prompts' = prompts
         /\ launched' = launched
         /\ config' = config
         /\ command' = command /\ assigned' = assigned]_vars

\* C5 witness: a command line title the loaded ConfigSet does not have was
\* dispatched.
C5_Witness ==
  /\ pc = "done"
  /\ err.type = "TitleNotFound"
  /\ caller = "main"
  /\ config # <<>>
  /\ Absent(title)

Launches(kind) == Cardinality({i \in 1..Len(launched) : launched[i].kind = kind})

\* C6 as stated: at most one external process per invocation.
C6_AtMostOneProcess == Len(launched) <= 1

\* C6 amended: at most one command is handed to the shell per invocation;
\* with a title on the command line that is the only external process; via
\* the Selector the picker is one more, launched first: at most two.
C6_AtMostOneCommand ==
  /\ Launches("command") <= 1
  /\ Launches("picker") <= 1
  /\ Len(launched) = Launches("command") + Launches("picker")
  /\ has_title(argv) => Launches("picker") = 0
  /\ Len(launched) = 2 => launched[1].kind = "picker"

\* C6 witness: the picker ran, and then the command of the picked title.
C6_Witness ==
  /\ pc = "done"
  /\ Len(launched) = 2
  /\ launched[1].kind = "picker"
  /\ launched[2].kind = "command"

\* C8: a Selector invocation that ended without an error has removed the
\* directory it created.
C8_DirectoryRemoved ==
  (pc = "done" /\ err = NoError /\ tmpdir # "none") => tmpdir = "removed"

IsEntry(e) == e.title # SETTINGS

\* C9: when the picker exits with zero and gives back the row of an Entry,
\* it is the title of that Entry that is dispatched, and it is found.
C9_RowRoundTrip ==
  (pc # "picker" /\ picked # 0) =>
    /\ title = SelectSeq(config, IsEntry)[picked].title
    /\ err.type # "TitleNotFound"

====
